---- MODULE Spec2Model ----
(***************************************************************************)
(* MapView: the three variants of the alert map panel.                     *)
(*   "leaflet"     react-leaflet, markers rendered declaratively           *)
(*   "tokenEntry"  Mapbox GL, access token typed into an input             *)
(*   "serverToken" Mapbox GL, access token fetched once on mount           *)
(* A render commits the pending React state together with the alert list   *)
(* of the parent and then runs the effects whose dependencies changed:     *)
(* first the cleanups, then the effect bodies, in declaration order.       *)
(* State set from an effect or a callback is queued in pend* and becomes   *)
(* the rendered state at the next render.                                  *)
(***************************************************************************)
EXTENDS Integers, Sequences, FiniteSets, TLC

\* ---------------------------------------------------------------- bounds
MaxAlerts == 2

\* ------------------------------------------------------ program constants
DefaultLat == 286139
DefaultLng == 772090
DefaultZoom == 10
FitPadding == 50

Variants == {"leaflet", "tokenEntry", "serverToken"}

\* Token values: the empty string and two non-empty ones.
Tokens == {"pk.a", "pk.b"}
TokenValues == Tokens \cup {""}

\* Alerts the parent may supply.  Coordinates are in units of 1e-4 degree.
\* A4 carries tags outside the enumerations (no validation is performed);
\* A5 shares (type, status) with A1 and differs in every other field.
AlertPool ==
  { [id |-> "a1", sosId |-> "101", type |-> "MEDICAL", latitude |-> 0,
     longitude |-> 10, status |-> "PENDING"],
    [id |-> "a2", sosId |-> "102", type |-> "POLICE", latitude |-> 10,
     longitude |-> 30, status |-> "ASSIGNED"],
    [id |-> "a3", sosId |-> "103", type |-> "FIRE", latitude |-> 20,
     longitude |-> 0, status |-> "RESOLVED"],
    [id |-> "a4", sosId |-> "104", type |-> "HAZMAT", latitude |-> 10,
     longitude |-> 10, status |-> "CANCELLED"],
    [id |-> "a5", sosId |-> "105", type |-> "MEDICAL", latitude |-> 30,
     longitude |-> 20, status |-> "PENDING"] }

Range(s) == {s[i] : i \in 1..Len(s)}

\* Alert lists of at most MaxAlerts alerts with pairwise distinct ids.
AlertLists ==
  UNION { { s \in [1..n -> AlertPool] :
              \A i, j \in 1..n : i # j => s[i].id # s[j].id } : n \in 0..MaxAlerts }

\* ------------------------------------------------------- marker appearance
\* Mutant of getTypeIcon: the POLICE case returns the MEDICAL icon.
getTypeIconPoliceAsMedical(type) ==
  CASE type = "MEDICAL" -> "U+1F691"
    [] type = "POLICE" -> "U+1F691"
    [] type = "FIRE" -> "U+1F692"
    [] OTHER -> "U+1F6A8"

getTypeIcon(type) ==
  CASE type = "MEDICAL" -> "U+1F691"
    [] type = "POLICE" -> "U+1F694"
    [] type = "FIRE" -> "U+1F692"
    [] OTHER -> "U+1F6A8"

getStatusColorLeaflet(status) ==
  CASE status = "PENDING" -> "#ef4444"
    [] status = "ASSIGNED" -> "#f59e0b"
    [] status = "RESOLVED" -> "#10b981"
    [] OTHER -> "#6b7280"

getStatusColor(status) ==
  CASE status = "PENDING" -> "border-pending bg-pending/20"
    [] status = "ASSIGNED" -> "border-assigned bg-assigned/20"
    [] status = "RESOLVED" -> "border-resolved bg-resolved/20"
    [] OTHER -> "border-muted bg-muted/20"

\* The popup body, as the sequence of its text pieces.
PopupHTML(alert) ==
  << alert.type, " Alert", "SOS ID: ", alert.sosId, "Status: ", alert.status >>

\* L.divIcon of createCustomIcon: background colour and emoji.
createCustomIcon(type, status) ==
  [color |-> getStatusColorLeaflet(status), icon |-> getTypeIcon(type)]

\* <Marker position=[lat, lng] icon=...><Popup>...</Popup></Marker>
LeafletMarker(alert, mapId) ==
  [pos |-> << alert.latitude, alert.longitude >>,
   color |-> createCustomIcon(alert.type, alert.status).color,
   icon |-> createCustomIcon(alert.type, alert.status).icon,
   title |-> << >>,
   popup |-> PopupHTML(alert),
   map |-> mapId, gen |-> 0]

\* Mutant of MapboxMarker: setLngLat is handed [lat, lng].
MapboxMarkerLatLng(alert, mapId, gen) ==
  [pos |-> << alert.latitude, alert.longitude >>,
   color |-> getStatusColor(alert.status),
   icon |-> getTypeIcon(alert.type),
   title |-> << alert.type, " - SOS #", alert.sosId >>,
   popup |-> PopupHTML(alert),
   map |-> mapId, gen |-> gen]

\* new mapboxgl.Marker(el).setLngLat([lng, lat]).addTo(map) with its popup.
MapboxMarker(alert, mapId, gen) ==
  [pos |-> << alert.longitude, alert.latitude >>,
   color |-> getStatusColor(alert.status),
   icon |-> getTypeIcon(alert.type),
   title |-> << alert.type, " - SOS #", alert.sosId >>,
   popup |-> PopupHTML(alert),
   map |-> mapId, gen |-> gen]

\* ------------------------------------------------------------ map views
Min(a, b) == IF a <= b THEN a ELSE b
Max(a, b) == IF a >= b THEN a ELSE b

\* A view: the box the map was asked to show (a point for setView/center).
\* Corners are <<lat, lng>>.
CenterView(lat, lng, zoom) ==
  [kind |-> "center", sw |-> << lat, lng >>, ne |-> << lat, lng >>,
   zoom |-> zoom, padding |-> 0]

\* center: [77.2090, 28.6139] (Mapbox order: lng, lat), zoom 10.
MapboxInitialView ==
  LET center == << DefaultLng, DefaultLat >>
  IN CenterView(center[2], center[1], DefaultZoom)

\* center={[28.6139, 77.2090]} / map.setView([28.6139, 77.2090], 10).
LeafletDefaultView ==
  LET center == << DefaultLat, DefaultLng >>
  IN CenterView(center[1], center[2], DefaultZoom)

EmptyBounds == [empty |-> TRUE, sw |-> << 0, 0 >>, ne |-> << 0, 0 >>]

\* Mutant of Extend: the north-east corner is never moved.
ExtendSouthWestOnly(b, lat, lng) ==
  IF b.empty
    THEN [empty |-> FALSE, sw |-> << lat, lng >>, ne |-> << lat, lng >>]
    ELSE [empty |-> FALSE,
          sw |-> << Min(b.sw[1], lat), Min(b.sw[2], lng) >>,
          ne |-> b.ne]

\* LngLatBounds.extend / LatLngBounds.extend with one point.
Extend(b, lat, lng) ==
  IF b.empty
    THEN [empty |-> FALSE, sw |-> << lat, lng >>, ne |-> << lat, lng >>]
    ELSE [empty |-> FALSE,
          sw |-> << Min(b.sw[1], lat), Min(b.sw[2], lng) >>,
          ne |-> << Max(b.ne[1], lat), Max(b.ne[2], lng) >>]

RECURSIVE ExtendAll(_, _, _)
\* Extending b with the points (each <<lat, lng>>) from the i-th on, in order.
ExtendAll(b, points, i) ==
  IF i > Len(points) THEN b
  ELSE ExtendAll(Extend(b, points[i][1], points[i][2]), points, i + 1)

\* LngLat.convert([lng, lat]): a Mapbox coordinate pair read as <<lat, lng>>.
FromLngLat(p) == << p[2], p[1] >>

\* L.latLng([lat, lng]): a Leaflet coordinate pair read as <<lat, lng>>.
FromLatLng(p) == << p[1], p[2] >>

\* LatLngBounds.pad(0.1): each side moved out by a tenth of the extent.
Pad(b) ==
  LET heightBuffer == ((b.ne[1] - b.sw[1]) * 1) \div 10
      widthBuffer == ((b.ne[2] - b.sw[2]) * 1) \div 10
  IN [empty |-> FALSE,
      sw |-> << b.sw[1] - heightBuffer, b.sw[2] - widthBuffer >>,
      ne |-> << b.ne[1] + heightBuffer, b.ne[2] + widthBuffer >>]

BoundsView(b, padding) ==
  [kind |-> "bounds", sw |-> b.sw, ne |-> b.ne, zoom |-> 0, padding |-> padding]

\* ------------------------------------------------------------------ state
VARIABLES
  variant,      \* which of the three MapView implementations is mounted
  phase,        \* "init" (constructed), "mounted", "unmounted"
  alerts,       \* props.alerts of the last render
  mapboxToken,  \* useState: value of the last render
  isMapLoaded,  \* useState: value of the last render
  tokenError,   \* useState: value of the last render (serverToken)
  pendToken,    \* mapboxToken after the queued setMapboxToken calls
  pendLoaded,   \* isMapLoaded after the queued setIsMapLoaded calls
  pendError,    \* tokenError after the queued setTokenError calls
  display,      \* the branch of the JSX conditional that is on screen
  mapContainer, \* mapContainer.current is attached
  map,          \* map.current: 0 for null, else the index of the instance
  maps,         \* every map instance created: [status, view]
  markers,      \* markers.current
  attached,     \* markers added to a map and not removed, in DOM order
  cleanupReg,   \* the map-init effect returned its cleanup function
  fetchState,   \* "idle", "pending", or the outcome kind of the token fetch
  fetchCalls,   \* number of supabase.functions.invoke calls made
  syncOn,       \* [map, status]: where marker-sync last passed its guard for
                \* the current alert list, and that map's status at that time
  gen           \* generation bit of the markers of the last marker-sync run

vars == << variant, phase, alerts, mapboxToken, isMapLoaded, tokenError,
           pendToken, pendLoaded, pendError, display, mapContainer, map, maps,
           markers, attached, cleanupReg, fetchState, fetchCalls, syncOn, gen >>

NoSync == [map |-> 0, status |-> "none"]

\* The mutable objects the effects work on, as one record.
Heap ==
  [maps |-> maps, map |-> map, markers |-> markers, attached |-> attached,
   pendLoaded |-> pendLoaded, cleanupReg |-> cleanupReg, gen |-> gen,
   ran |-> FALSE]

\* ------------------------------------------------------------- rendering
\* Mutant of DisplayServer: the tokenError branch is missing.
DisplayServerNoErrorBranch(err, tok) ==
  IF tok = "" THEN "loading" ELSE "map"

\* tokenError ? error : !mapboxToken ? loading : map container
DisplayServer(err, tok) ==
  IF err THEN "error" ELSE IF tok = "" THEN "loading" ELSE "map"

\* !mapboxToken ? token input : map container
DisplayEntry(tok) ==
  IF tok = "" THEN "tokenInput" ELSE "map"

Display(v, err, tok) ==
  CASE v = "leaflet" -> "map"
    [] v = "tokenEntry" -> DisplayEntry(tok)
    [] v = "serverToken" -> DisplayServer(err, tok)

\* ---------------------------------------------------------------- effects
\* markers.current.forEach(marker => marker.remove()); markers.current = []
ClearMarkers(h) ==
  LET Kept(m) == m \notin Range(h.markers)
  IN [h EXCEPT !.attached = SelectSeq(h.attached, Kept), !.markers = << >>]

\* map.current?.remove()
RemoveMap(h) ==
  IF h.map = 0 THEN h
  ELSE [h EXCEPT !.maps[h.map].status = "removed"]

\* Mutant of MapInitCleanup: map.current?.remove() is missing.
MapInitCleanupKeepingMap(h) ==
  [ClearMarkers(h) EXCEPT !.pendLoaded = FALSE]

\* The cleanup returned by the map-init effect.
MapInitCleanup(h) ==
  [RemoveMap(ClearMarkers(h)) EXCEPT !.pendLoaded = FALSE]

\* Mutant of MapInitGuard: the early return is missing.
MapInitGuardNone(container, token) == TRUE

\* if (!mapContainer.current || !mapboxToken) return;
MapInitGuard(container, token) == container /\ token # ""

\* The map-init effect body (deps [mapboxToken]).
MapInitEffect(h, container, token) ==
  IF MapInitGuard(container, token)
    THEN [h EXCEPT !.maps = Append(h.maps, [status |-> "loading",
                                            view |-> MapboxInitialView]),
                   !.map = Len(h.maps) + 1,
                   !.cleanupReg = TRUE]
    ELSE [h EXCEPT !.cleanupReg = FALSE]

\* Mutant of SyncGuard: isMapLoaded is not consulted.
SyncGuardNoLoadCheck(h, loaded) == h.map # 0

\* if (!map.current || !isMapLoaded) return;
SyncGuard(h, loaded) == h.map # 0 /\ loaded

\* The bounds marker-sync hands to map.fitBounds.
MapboxBounds(list) ==
  ExtendAll(EmptyBounds,
            [i \in 1..Len(list) |-> FromLngLat(<< list[i].longitude, list[i].latitude >>)],
            1)

\* Mutant of MarkerSync: the old markers are forgotten, not removed.
MarkerSyncKeepingOld(h, list, loaded) ==
  IF ~SyncGuard(h, loaded) THEN h
  ELSE
    LET g == 1 - h.gen
        new == [i \in 1..Len(list) |-> MapboxMarker(list[i], h.map, g)]
    IN [h EXCEPT !.attached = h.attached \o new,
                 !.markers = new,
                 !.gen = g,
                 !.ran = TRUE,
                 !.maps[h.map].view =
                    IF Len(list) > 0
                      THEN BoundsView(MapboxBounds(list), FitPadding)
                      ELSE @]

\* The marker-sync effect body (deps [alerts, isMapLoaded]).
MarkerSync(h, list, loaded) ==
  IF ~SyncGuard(h, loaded) THEN h
  ELSE
    LET h1 == ClearMarkers(h)
        g == 1 - h.gen
        new == [i \in 1..Len(list) |-> MapboxMarker(list[i], h.map, g)]
    IN [h1 EXCEPT !.attached = h1.attached \o new,
                  !.markers = new,
                  !.gen = g,
                  !.ran = TRUE,
                  !.maps[h.map].view =
                     IF Len(list) > 0
                       THEN BoundsView(MapboxBounds(list), FitPadding)
                       ELSE @]

\* Mutant of RunEffects: marker-sync is declared with deps [alerts] only.
RunEffectsAlertsDepOnly(h, first, tokOld, tokNew, loadedOld, loadedNew, container, list, listChanged) ==
  LET tokChanged == first \/ tokOld # tokNew
      syncDeps == first \/ listChanged
      h1 == IF tokChanged /\ h.cleanupReg THEN MapInitCleanup(h) ELSE h
      h2 == IF tokChanged THEN MapInitEffect(h1, container, tokNew) ELSE h1
  IN IF syncDeps THEN MarkerSync(h2, list, loadedNew) ELSE h2

\* The passive effects of one commit of a Mapbox variant: the cleanup of
\* map-init when its dependency changed, then the effect bodies in order.
RunEffects(h, first, tokOld, tokNew, loadedOld, loadedNew, container, list, listChanged) ==
  LET tokChanged == first \/ tokOld # tokNew
      syncDeps == first \/ listChanged \/ loadedOld # loadedNew
      h1 == IF tokChanged /\ h.cleanupReg THEN MapInitCleanup(h) ELSE h
      h2 == IF tokChanged THEN MapInitEffect(h1, container, tokNew) ELSE h1
  IN IF syncDeps THEN MarkerSync(h2, list, loadedNew) ELSE h2

\* The FitBounds effect of the Leaflet variant (deps [alerts, map]).
FitBounds(list) ==
  IF Len(list) > 0
    THEN BoundsView(
           Pad(ExtendAll(EmptyBounds,
                 [i \in 1..Len(list) |-> FromLatLng(<< list[i].latitude, list[i].longitude >>)],
                 1)),
           0)
    ELSE LeafletDefaultView

\* alerts.map(alert => <Marker .../>) inside the MapContainer.
LeafletMarkers(list, mapId) ==
  [i \in 1..Len(list) |-> LeafletMarker(list[i], mapId)]

\* ---------------------------------------------------------- token fetch
\* Outcomes of supabase.functions.invoke('get-mapbox-token').
FetchOutcomes ==
  { [kind |-> "error", token |-> ""],     \* resolved with { error }
    [kind |-> "threw", token |-> ""],     \* the call rejected
    [kind |-> "nodata", token |-> ""] }   \* resolved with data null
  \cup { [kind |-> "data", token |-> t] : t \in TokenValues }

\* Mutant of fetchMapboxToken: a response without token sets no error.
fetchMapboxTokenSilentNoToken(o) ==
  IF o.kind = "data"
    THEN [setToken |-> o.token # "", token |-> o.token, setError |-> FALSE]
    ELSE [setToken |-> FALSE, token |-> "", setError |-> o.kind # "nodata"]

\* What fetchMapboxToken does with an outcome: the state setters it calls.
fetchMapboxToken(o) ==
  IF o.kind \in {"error", "threw"}
    THEN [setToken |-> FALSE, token |-> "", setError |-> TRUE]
  ELSE IF o.kind = "data" /\ o.token # ""
    THEN [setToken |-> TRUE, token |-> o.token, setError |-> FALSE]
    ELSE [setToken |-> FALSE, token |-> "", setError |-> TRUE]

\* How an outcome is recorded in fetchState.
OutcomeName(o) ==
  IF o.kind = "data" THEN (IF o.token # "" THEN "ok" ELSE "notoken") ELSE o.kind

\* ------------------------------------------------------------------- Init
Init ==
  /\ variant \in Variants
  /\ phase = "init"
  /\ alerts \in AlertLists
  /\ mapboxToken = ""
  /\ isMapLoaded = FALSE
  /\ tokenError = FALSE
  /\ pendToken = ""
  /\ pendLoaded = FALSE
  /\ pendError = FALSE
  /\ display = "none"
  /\ mapContainer = FALSE
  /\ map = 0
  /\ maps = << >>
  /\ markers = << >>
  /\ attached = << >>
  /\ cleanupReg = FALSE
  /\ fetchState = "idle"
  /\ fetchCalls = 0
  /\ syncOn = NoSync
  /\ gen = 0

\* ---------------------------------------------------------------- commits
\* One render of a Mapbox variant with alert list `list`, and its effects.
CommitMapbox(first, list, listChanged) ==
  LET disp == Display(variant, pendError, pendToken)
      cont == disp = "map"
      h == RunEffects(Heap, first, mapboxToken, pendToken, isMapLoaded,
                      pendLoaded, cont, list, listChanged)
  IN /\ alerts' = list
     /\ mapboxToken' = pendToken
     /\ isMapLoaded' = pendLoaded
     /\ tokenError' = pendError
     /\ display' = disp
     /\ mapContainer' = cont
     /\ pendLoaded' = h.pendLoaded
     /\ map' = h.map
     /\ maps' = h.maps
     /\ markers' = h.markers
     /\ attached' = h.attached
     /\ cleanupReg' = h.cleanupReg
     /\ gen' = h.gen
     /\ syncOn' = IF h.ran THEN [map |-> h.map, status |-> h.maps[h.map].status]
                  ELSE IF listChanged THEN NoSync
                  ELSE syncOn
     /\ UNCHANGED << variant, pendToken, pendError >>

\* One render of the Leaflet variant: the MapContainer holds one map, the
\* markers are the children rendered from the list, FitBounds runs.
CommitLeaflet(first, list) ==
  /\ alerts' = list
  /\ display' = "map"
  /\ mapContainer' = TRUE
  /\ map' = 1
  /\ maps' = IF first
               THEN << [status |-> "loaded", view |-> FitBounds(list)] >>
               ELSE [maps EXCEPT ![1].view = FitBounds(list)]
  /\ attached' = LeafletMarkers(list, 1)
  /\ UNCHANGED << variant, mapboxToken, isMapLoaded, tokenError, pendToken,
                  pendLoaded, pendError, markers, cleanupReg, syncOn, gen >>

\* ---------------------------------------------------------------- actions
\* First render and effects.  serverToken starts its token fetch.
Mount ==
  /\ phase = "init"
  /\ phase' = "mounted"
  /\ IF variant = "leaflet"
       THEN CommitLeaflet(TRUE, alerts)
       ELSE CommitMapbox(TRUE, alerts, TRUE)
  /\ IF variant = "serverToken"
       THEN fetchState' = "pending" /\ fetchCalls' = fetchCalls + 1
       ELSE UNCHANGED << fetchState, fetchCalls >>

\* The parent renders with a new alert array; queued state is rendered too.
AlertsChange(list) ==
  /\ phase = "mounted"
  /\ IF variant = "leaflet"
       THEN CommitLeaflet(FALSE, list)
       ELSE CommitMapbox(FALSE, list, TRUE)
  /\ UNCHANGED << phase, fetchState, fetchCalls >>

\* A render caused by queued state alone.
Rerender ==
  /\ phase = "mounted"
  /\ variant # "leaflet"
  /\ << pendToken, pendLoaded, pendError >> # << mapboxToken, isMapLoaded, tokenError >>
  /\ CommitMapbox(FALSE, alerts, FALSE)
  /\ UNCHANGED << phase, fetchState, fetchCalls >>

\* onChange of the token input, which exists while the input is on screen.
SetToken(value) ==
  /\ phase = "mounted"
  /\ variant = "tokenEntry"
  /\ display = "tokenInput"
  /\ pendToken' = value
  /\ UNCHANGED << variant, phase, alerts, mapboxToken, isMapLoaded, tokenError,
                  pendLoaded, pendError, display, mapContainer, map, maps,
                  markers, attached, cleanupReg, fetchState, fetchCalls,
                  syncOn, gen >>

\* The token fetch settles.  Setters called after unmount have no effect.
FetchResolve(o) ==
  /\ variant = "serverToken"
  /\ fetchState = "pending"
  /\ fetchState' = OutcomeName(o)
  /\ LET r == fetchMapboxToken(o)
     IN IF phase = "mounted"
          THEN /\ pendToken' = IF r.setToken THEN r.token ELSE pendToken
               /\ pendError' = IF r.setError THEN TRUE ELSE pendError
          ELSE UNCHANGED << pendToken, pendError >>
  /\ UNCHANGED << variant, phase, alerts, mapboxToken, isMapLoaded, tokenError,
                  pendLoaded, display, mapContainer, map, maps, markers,
                  attached, cleanupReg, fetchCalls, syncOn, gen >>

\* map.on('load', () => setIsMapLoaded(true)) of a live map that has not
\* loaded yet.
MapLoad(m) ==
  /\ phase = "mounted"
  /\ variant # "leaflet"
  /\ m \in 1..Len(maps)
  /\ maps[m].status = "loading"
  /\ maps' = [maps EXCEPT ![m].status = "loaded"]
  /\ pendLoaded' = TRUE
  /\ UNCHANGED << variant, phase, alerts, mapboxToken, isMapLoaded, tokenError,
                  pendToken, pendError, display, mapContainer, map, markers,
                  attached, cleanupReg, fetchState, fetchCalls, syncOn, gen >>

\* Unmount: the registered cleanups run; react-leaflet removes its layers
\* and its map.
Unmount ==
  /\ phase = "mounted"
  /\ phase' = "unmounted"
  /\ display' = "none"
  /\ mapContainer' = FALSE
  /\ LET h == IF variant = "leaflet"
                THEN RemoveMap([Heap EXCEPT !.attached = << >>])
                ELSE IF cleanupReg THEN MapInitCleanup(Heap) ELSE Heap
     IN /\ maps' = h.maps
        /\ markers' = h.markers
        /\ attached' = h.attached
        /\ pendLoaded' = h.pendLoaded
  /\ cleanupReg' = FALSE
  /\ UNCHANGED << variant, alerts, mapboxToken, isMapLoaded, tokenError,
                  pendToken, pendError, map, fetchState, fetchCalls, syncOn, gen >>

Next ==
  \/ Mount
  \/ \E list \in AlertLists : AlertsChange(list)
  \/ Rerender
  \/ \E value \in TokenValues : SetToken(value)
  \/ \E o \in FetchOutcomes : FetchResolve(o)
  \/ \E m \in 1..Len(maps) : MapLoad(m)
  \/ Unmount

Spec == Init /\ [][Next]_vars

\* ------------------------------------------------ reading the rendered map
Mapbox == variant \in {"tokenEntry", "serverToken"}

LiveMaps == {m \in 1..Len(maps) : maps[m].status \in {"loading", "loaded"}}

\* The markers attached to map instance m, in order.
OnMap(m) ==
  LET On(x) == x.map = m
  IN SelectSeq(attached, On)

\* The markers attached to any live map instance, in order.
LiveAttached ==
  LET On(x) == x.map \in LiveMaps
  IN SelectSeq(attached, On)

\* Latitude and longitude of a marker: Marker.getLngLat() is [lng, lat],
\* a Leaflet position is [lat, lng].
MarkerLat(mk) == IF variant = "leaflet" THEN mk.pos[1] ELSE mk.pos[2]
MarkerLng(mk) == IF variant = "leaflet" THEN mk.pos[2] ELSE mk.pos[1]

\* marker-sync has run for the rendered alert list on the current map
\* instance, which is loaded (Leaflet: the list has been rendered).
SyncedOnLoadedMap ==
  /\ phase = "mounted"
  /\ map # 0
  /\ maps[map].status = "loaded"
  /\ Mapbox => syncOn.map = map

View == maps[map].view

IsDefaultView(v) ==
  /\ v.kind = "center"
  /\ v.sw = << DefaultLat, DefaultLng >>
  /\ v.zoom = DefaultZoom

Lats(list) == {list[i].latitude : i \in 1..Len(list)}
Lngs(list) == {list[i].longitude : i \in 1..Len(list)}
Least(S) == CHOOSE x \in S : \A y \in S : x <= y
Greatest(S) == CHOOSE x \in S : \A y \in S : x >= y

\* ----------------------------------------------------------------- claims

\* C1: once marker-sync has run for the current alert list on a loaded map,
\* the map carries exactly one marker per alert, the i-th marker stands at
\* the i-th alert's (latitude, longitude) and its popup carries that alert's
\* type and SOS identifier.
C1_MarkersMatchAlerts ==
  SyncedOnLoadedMap =>
    LET ms == OnMap(map)
    IN /\ Len(ms) = Len(alerts)
       /\ Len(LiveAttached) = Len(alerts)
       /\ \A i \in 1..Len(alerts) :
            /\ MarkerLat(ms[i]) = alerts[i].latitude
            /\ MarkerLng(ms[i]) = alerts[i].longitude
            /\ ms[i].popup[1] = alerts[i].type
            /\ ms[i].popup[4] = alerts[i].sosId

C1_Witness ==
  /\ Mapbox
  /\ SyncedOnLoadedMap
  /\ Len(alerts) = 2
  /\ alerts[1].latitude # alerts[1].longitude

\* C2: in the Mapbox variants the markers attached to a live map are exactly
\* the tracked list markers.current, and they all stem from the same run of
\* marker-sync: none from an earlier run is left on the map.
C2_NoLeakedMarkers ==
  Mapbox =>
    /\ LiveAttached = markers
    /\ \A x, y \in Range(LiveAttached) : x.gen = y.gen

\* marker-sync has run at least twice and the last run placed markers.
C2_Witness ==
  /\ Mapbox
  /\ gen = 0
  /\ Len(markers) = 2
  /\ LiveAttached = markers

\* C3: after unmount no map instance is live, no marker is attached to any
\* map and the tracked marker list is empty.
C3_ReleasedOnUnmount ==
  phase = "unmounted" =>
    /\ LiveMaps = {}
    /\ attached = << >>
    /\ markers = << >>

\* Unmounted from a state in which a loaded map carried markers.
C3_Witness ==
  /\ phase = "unmounted"
  /\ Mapbox
  /\ syncOn.status = "loaded"
  /\ Len(alerts) > 0
  /\ maps[map].status = "removed"

\* C4: in the server-token variant, while tokenError is true the error
\* message is on screen, the map container is not rendered and no map
\* instance has been created; which of error, loading and map is on screen
\* is decided by (tokenError, mapboxToken), one at a time.
C4_ErrorInsteadOfMap ==
  variant = "serverToken" =>
    /\ (tokenError \/ pendError) => maps = << >>
    /\ phase = "mounted" =>
         /\ tokenError => display = "error" /\ ~mapContainer
         /\ display = "error" <=> tokenError
         /\ display = "loading" <=> (~tokenError /\ mapboxToken = "")
         /\ display = "map" <=> (~tokenError /\ mapboxToken # "")
         /\ mapContainer <=> display = "map"

C4_Witness ==
  /\ variant = "serverToken"
  /\ phase = "mounted"
  /\ tokenError
  /\ display = "error"

\* C5: whenever the alert list supplied to a loaded map is empty, the view
\* is the default centre (28.6139, 77.2090) at zoom 10.
C5_EmptyListResetsView ==
  (SyncedOnLoadedMap /\ alerts = << >>) => IsDefaultView(View)

\* C6: icon and colour of a marker are decided by (type, status) alone:
\* MEDICAL, POLICE and FIRE have three different icons and every other type
\* the fallback icon; PENDING, ASSIGNED and RESOLVED have three different
\* colours and every other status the fallback colour; every marker on a
\* map shows the icon of its alert's type and the colour of its alert's
\* status, and markers of equal (type, status) look the same, within one
\* render and from one render to the next.
KnownTypes == {"MEDICAL", "POLICE", "FIRE"}
KnownStatuses == {"PENDING", "ASSIGNED", "RESOLVED"}
AllTypes == {a.type : a \in AlertPool} \cup KnownTypes \cup {"", "medical"}
AllStatuses == {a.status : a \in AlertPool} \cup KnownStatuses \cup {"", "pending"}

StatusColorOf(status) ==
  IF variant = "leaflet" THEN getStatusColorLeaflet(status) ELSE getStatusColor(status)

SameLook(m1, m2) ==
  (m1.popup[1] = m2.popup[1] /\ m1.popup[6] = m2.popup[6])
    => (m1.icon = m2.icon /\ m1.color = m2.color)

C6_Enumeration ==
  /\ Cardinality({getTypeIcon(t) : t \in KnownTypes}) = 3
  /\ \A t \in AllTypes \ KnownTypes : getTypeIcon(t) = "U+1F6A8"
  /\ Cardinality({getStatusColor(st) : st \in KnownStatuses}) = 3
  /\ \A st \in AllStatuses \ KnownStatuses : getStatusColor(st) = "border-muted bg-muted/20"
  /\ Cardinality({getStatusColorLeaflet(st) : st \in KnownStatuses}) = 3
  /\ \A st \in AllStatuses \ KnownStatuses : getStatusColorLeaflet(st) = "#6b7280"

C6_Rendered ==
  /\ \A m \in Range(attached) :
       /\ m.icon = getTypeIcon(m.popup[1])
       /\ m.color = StatusColorOf(m.popup[6])
  /\ \A m1, m2 \in Range(attached) : SameLook(m1, m2)

\* C6: the enumeration mapping holds and every rendered marker's icon and
\* colour follow from its alert's (type, status) alone, in every state and
\* from each render to the next.
C6_AppearanceByTypeAndStatus ==
  /\ [](C6_Enumeration /\ C6_Rendered)
  /\ [][\A m1 \in Range(attached) : \A m2 \in Range(attached') : SameLook(m1, m2)]_vars

\* Two markers of equal (type, status) for alerts that differ in every
\* other field are on the map, after a marker of another look was.
C6_Witness ==
  /\ gen = 0
  /\ \E m1, m2 \in Range(attached) :
        /\ m1.pos # m2.pos
        /\ m1.popup[4] # m2.popup[4]
        /\ m1.popup[1] = m2.popup[1]
        /\ m1.popup[6] = m2.popup[6]
        /\ m1.icon = "U+1F691"

\* C7: the server-token variant calls the token function once per mount;
\* every failure outcome sets tokenError and leaves the token empty, a
\* success sets the token and leaves tokenError false; tokenError, once
\* true, stays true.
FailureOutcomes == {"error", "threw", "nodata", "notoken"}

C7_FetchState ==
  /\ fetchCalls <= 1
  /\ (variant = "serverToken" /\ phase # "init") => fetchCalls = 1
  /\ variant # "serverToken" => fetchCalls = 0
  /\ (phase = "mounted" /\ fetchState \in FailureOutcomes)
       => (pendError /\ pendToken = "" /\ mapboxToken = "")
  /\ (phase = "mounted" /\ fetchState = "ok")
       => (pendToken \in Tokens /\ ~pendError /\ ~tokenError)
  /\ (variant = "serverToken" /\ fetchState = "pending")
       => (pendToken = "" /\ ~pendError)
  /\ tokenError => pendError

\* C7: one fetch per mount, failure sets tokenError and no token, success
\* sets the token and no error, and tokenError never goes back to false.
C7_SingleFetchSetsError ==
  /\ []C7_FetchState
  /\ [][(tokenError => tokenError') /\ (pendError => pendError')
        /\ fetchCalls' >= fetchCalls]_vars

C7_Witness ==
  /\ variant = "serverToken"
  /\ phase = "mounted"
  /\ fetchState = "notoken"
  /\ tokenError

\* C8 as stated: whenever marker-sync has run with a non-empty alert list
\* on a loaded map, the box the map was asked to fit has the least latitude
\* and longitude of the list as its south-west corner and the greatest as
\* its north-east corner.
C8_SmallestBox ==
  (SyncedOnLoadedMap /\ Len(alerts) > 0) =>
    /\ View.kind = "bounds"
    /\ View.sw = << Least(Lats(alerts)), Least(Lngs(alerts)) >>
    /\ View.ne = << Greatest(Lats(alerts)), Greatest(Lngs(alerts)) >>

\* C8 amended: in the Mapbox variants the box is the smallest box holding
\* every alert of the current list; in the Leaflet variant it is that box
\* with every side moved outwards by a tenth of the box's height (north,
\* south) or width (east, west).  Either way it holds every alert of the
\* current list and depends on the current list only.
C8_FitBox ==
  (SyncedOnLoadedMap /\ Len(alerts) > 0) =>
    LET s == Least(Lats(alerts))
        w == Least(Lngs(alerts))
        n == Greatest(Lats(alerts))
        e == Greatest(Lngs(alerts))
        hb == IF Mapbox THEN 0 ELSE (n - s) \div 10
        wb == IF Mapbox THEN 0 ELSE (e - w) \div 10
    IN /\ View.kind = "bounds"
       /\ View.sw = << s - hb, w - wb >>
       /\ View.ne = << n + hb, e + wb >>
       /\ \A i \in 1..Len(alerts) :
            /\ View.sw[1] <= alerts[i].latitude /\ alerts[i].latitude <= View.ne[1]
            /\ View.sw[2] <= alerts[i].longitude /\ alerts[i].longitude <= View.ne[2]

\* The Leaflet map was asked to fit two alerts that differ in latitude and
\* longitude: the box asked for is larger than the smallest one.
C8_Witness ==
  /\ variant = "leaflet"
  /\ SyncedOnLoadedMap
  /\ Len(alerts) = 2
  /\ View.sw[1] < Least(Lats(alerts))
  /\ View.ne[2] > Greatest(Lngs(alerts))

\* C9: in the Mapbox variants, whenever marker-sync passes its guard the
\* map instance in map.current is live and has fired its load event; so is
\* it whenever map.current is set and isMapLoaded (rendered or queued) is
\* true while mounted.
C9_SyncOnlyOnLoadedMap ==
  Mapbox =>
    /\ syncOn.status \in {"none", "loaded"}
    /\ syncOn.map # 0 => syncOn.map = map
    /\ (phase = "mounted" /\ map # 0 /\ (isMapLoaded \/ pendLoaded))
         => maps[map].status = "loaded"
    /\ \A x \in Range(attached) : x.map = map /\ maps[x.map].status = "loaded"

C9_Witness ==
  /\ Mapbox
  /\ phase = "mounted"
  /\ syncOn.status = "loaded"
  /\ isMapLoaded
  /\ Len(markers) > 0

\* C10: at most one map instance is live at any time, it is the one in
\* map.current, and while the rendered token is empty no map instance is
\* live.
C10_OneLiveMap ==
  /\ Cardinality(LiveMaps) <= 1
  /\ \A m \in LiveMaps : m = map
  /\ Mapbox =>
       /\ mapboxToken = "" => LiveMaps = {}
       /\ phase = "mounted" => (LiveMaps # {} <=> mapboxToken # "")

C10_Witness ==
  /\ variant = "tokenEntry"
  /\ phase = "mounted"
  /\ mapboxToken \in Tokens
  /\ LiveMaps = {map}


\* ------------------------------------------------------------- liveness
\* The steps the runtime is bound to take once they are possible: the token
\* request settles, a live map that is still loading fires its load event,
\* and queued state is rendered.  Renders caused by the parent and unmount
\* are up to the environment.  The liveness claim is about the server-token
\* variant, whose steps are all of Next but the token input.
FetchSettles == \E o \in FetchOutcomes : FetchResolve(o)
LoadDelivered == \E m \in 1..Len(maps) : MapLoad(m)

\* The alert lists the parent supplies in the liveness runs: those over
\* three of the alerts, two of which share (type, status).
LiveAlertLists ==
  {list \in AlertLists : \A i \in 1..Len(list) : list[i].id \in {"a1", "a2", "a5"}}

\* The server-token variant alone.
LiveInit == Init /\ variant = "serverToken" /\ alerts \in LiveAlertLists

LiveNext ==
  \/ Mount
  \/ \E list \in LiveAlertLists : AlertsChange(list)
  \/ Rerender
  \/ FetchSettles
  \/ LoadDelivered
  \/ Unmount

LiveSpec ==
  /\ LiveInit
  /\ [][LiveNext]_vars
  /\ WF_vars(FetchSettles)
  /\ WF_vars(LoadDelivered)
  /\ WF_vars(Rerender)

\* The markers on the map are exactly those of the rendered alert list, on
\* the loaded map in map.current.
MarkersShowAlerts ==
  /\ SyncedOnLoadedMap
  /\ isMapLoaded
  /\ LiveAttached = markers
  /\ Len(markers) = Len(alerts)
  /\ \A i \in 1..Len(alerts) :
       /\ MarkerLat(markers[i]) = alerts[i].latitude
       /\ MarkerLng(markers[i]) = alerts[i].longitude
       /\ markers[i].popup = PopupHTML(alerts[i])
       /\ markers[i].icon = getTypeIcon(alerts[i].type)
       /\ markers[i].color = getStatusColor(alerts[i].status)

FetchSucceeded == variant = "serverToken" /\ fetchState = "ok"

\* C11: in the server-token variant, once the token fetch has succeeded
\* with a non-empty token, then (the load event being delivered and queued
\* state being rendered) either the component is unmounted or eventually
\* the markers on the map are exactly those of the most recently supplied
\* alert list; and from then on they are those of the supplied list after
\* every step, up to unmount.
C11_MarkersEventuallyShown ==
  /\ FetchSucceeded ~> (phase = "unmounted" \/ MarkersShowAlerts)
  /\ [][(FetchSucceeded /\ MarkersShowAlerts)
          => (MarkersShowAlerts' \/ phase' = "unmounted")]_vars

\* The markers of a second alert list are shown after a successful fetch.
C11_Witness ==
  /\ FetchSucceeded
  /\ MarkersShowAlerts
  /\ Len(alerts) = 2
  /\ gen = 0

====
